---------------------------- MODULE Spec2Model ----------------------------
(***************************************************************************)
(* Model of the Kokoro TTS front-end server (src/mcp_server.js) and its    *)
(* reverse-client tools (src/kokoro-reverse-client.js): the server state   *)
(* object, the line stream written to the processor's stdin, the handlers  *)
(* of the processor's output lines, the history ring and the MP3 combine   *)
(* jobs.  The processor itself (processor.py) is not part of the sources;  *)
(* its side is modelled from the message contract of the specification.    *)
(*                                                                         *)
(* Strings that the code takes apart (paths) are sequences of one-char     *)
(* strings; opaque strings (texts, voices, phases) are TLA+ strings.       *)
(***************************************************************************)
EXTENDS Integers, Sequences, FiniteSets, TLC

(***************************************************************************)
(* Bounds of the model.                                                    *)
(***************************************************************************)
MaxRequests == 2    \* requests accepted in one run
MaxJobs == 1        \* combine jobs started in one run
MaxHistWrites == 52 \* lines written in the history specification
MaxLines == 4       \* lines written in the playback-control specification
MaxTextLen == 7     \* characters of a text handed to the splitter
MaxPairJobs == 2    \* combine jobs in progress at once
MaxPathParts == 4   \* pieces an output path is put together from

(***************************************************************************)
(* Program constants.                                                      *)
(***************************************************************************)
HistoryCap == 50          \* mcp_server.js:237
DefaultMaxChars == 5000   \* mcp_server.js:300
PadWidth == 3             \* mcp_server.js:317
CombiningPercent == 95    \* mcp_server.js:222

NoJob == 0        \* jobId undefined / null
NoStamp == 0      \* no timestamp field
NoPath == << >>   \* null / undefined / "" path (all falsy in the code)
NoVal == "none"   \* an optional argument that was not passed

CONTAINER_DATA_PREFIX == <<"/", "a", "p", "p", "/", "d", "a", "t", "a">>
MP3_HOST_PREFIX == <<"~", "/", ".", "t", "t", "s">>
Mp3Dir == <<"/", "a", "p", "p", "/", "d", "a", "t", "a", "/", "m", "p", "3">>
DotMp3 == <<".", "m", "p", "3">>

(***************************************************************************)
(* String helpers (JavaScript String methods on char sequences).           *)
(***************************************************************************)
startsWith(s, p) == Len(s) >= Len(p) /\ SubSeq(s, 1, Len(p)) = p

slice(s, n) == SubSeq(s, n + 1, Len(s))

toLowerCase(c) ==
    CASE c = "M" -> "m"
      [] c = "P" -> "p"
      [] OTHER -> c

\* s matches /\.mp3$/i
EndsWithDotMp3(s) ==
    /\ Len(s) >= Len(DotMp3)
    /\ \A i \in 1..Len(DotMp3) :
          toLowerCase(s[Len(s) - Len(DotMp3) + i]) = DotMp3[i]

\* s.replace(/\.mp3$/i, "")
StripDotMp3(s) ==
    IF EndsWithDotMp3(s) THEN SubSeq(s, 1, Len(s) - Len(DotMp3)) ELSE s

DigitChar(d) == <<"0", "1", "2", "3", "4", "5", "6", "7", "8", "9">>[d + 1]

RECURSIVE String(_)
String(n) ==
    IF n < 10 THEN <<DigitChar(n)>>
    ELSE String(n \div 10) \o <<DigitChar(n % 10)>>

padStart(s, width, fill) ==
    IF Len(s) >= width THEN s
    ELSE [i \in 1..(width - Len(s)) |-> fill] \o s

\* variant: the slice starts one character late
containerToHostPath_SliceLate(containerPath) ==
    IF containerPath = NoPath THEN containerPath
    ELSE IF startsWith(containerPath, CONTAINER_DATA_PREFIX)
         THEN MP3_HOST_PREFIX \o slice(containerPath, Len(CONTAINER_DATA_PREFIX) + 1)
         ELSE containerPath

containerToHostPath(containerPath) ==
    IF containerPath = NoPath THEN containerPath
    ELSE IF startsWith(containerPath, CONTAINER_DATA_PREFIX)
         THEN MP3_HOST_PREFIX \o slice(containerPath, Len(CONTAINER_DATA_PREFIX))
         ELSE containerPath

hostToContainerPath(hostPath) ==
    IF hostPath = NoPath THEN hostPath
    ELSE IF startsWith(hostPath, MP3_HOST_PREFIX)
         THEN CONTAINER_DATA_PREFIX \o slice(hostPath, Len(MP3_HOST_PREFIX))
         ELSE hostPath

\* new Date().toISOString().replace(/[:.]/g, "-") at logical time t
Timestamp(t) == <<"T">> \o String(t)

\* path.join(dir, name)
pathJoin(dir, name) == dir \o <<"/">> \o name

(***************************************************************************)
(* splitTextIntoSections (mcp_server.js) = splitTextForCombine             *)
(* (kokoro-reverse-client.js): the same code in both files.                *)
(***************************************************************************)
IsSpace(c) == c \in {" ", "\n"}

IsSentenceEnd(c) == c \in {".", "!", "?"}

\* last index of the maximal whitespace run that starts at i (i - 1 if none)
RECURSIVE RunEnd(_, _)
RunEnd(s, i) ==
    IF i <= Len(s) /\ IsSpace(s[i]) THEN RunEnd(s, i + 1) ELSE i - 1

SetMax(S) == CHOOSE x \in S : \A y \in S : y <= x

\* s.trim()
RECURSIVE trimStart(_)
trimStart(s) ==
    IF s # << >> /\ IsSpace(Head(s)) THEN trimStart(Tail(s)) ELSE s

RECURSIVE trimEnd(_)
trimEnd(s) ==
    IF s # << >> /\ IsSpace(s[Len(s)]) THEN trimEnd(SubSeq(s, 1, Len(s) - 1)) ELSE s

trim(s) == trimEnd(trimStart(s))

\* end index of a match of /\n\s*\n/ that starts at i, 0 if none starts there
ParagraphBreakEnd(s, i) ==
    IF s[i] # "\n" THEN 0
    ELSE LET newlines == {j \in (i + 1)..RunEnd(s, i + 1) : s[j] = "\n"}
         IN  IF newlines = {} THEN 0 ELSE SetMax(newlines)

\* s.split(/\n\s*\n/), scanning from i with the current piece starting at start
RECURSIVE SplitParagraphsFrom(_, _, _)
SplitParagraphsFrom(s, start, i) ==
    IF i > Len(s) THEN <<SubSeq(s, start, Len(s))>>
    ELSE LET e == ParagraphBreakEnd(s, i)
         IN  IF e > 0
             THEN <<SubSeq(s, start, i - 1)>> \o SplitParagraphsFrom(s, e + 1, e + 1)
             ELSE SplitParagraphsFrom(s, start, i + 1)

SplitParagraphs(s) == SplitParagraphsFrom(s, 1, 1)

\* end index of a match of /(?<=[.!?])\s+/ that starts at i, 0 if none
SentenceBreakEnd(s, i) ==
    IF i > 1 /\ IsSentenceEnd(s[i - 1]) /\ IsSpace(s[i]) THEN RunEnd(s, i) ELSE 0

\* s.split(/(?<=[.!?])\s+/)
RECURSIVE SplitSentencesFrom(_, _, _)
SplitSentencesFrom(s, start, i) ==
    IF i > Len(s) THEN <<SubSeq(s, start, Len(s))>>
    ELSE LET e == SentenceBreakEnd(s, i)
         IN  IF e > 0
             THEN <<SubSeq(s, start, i - 1)>> \o SplitSentencesFrom(s, e + 1, e + 1)
             ELSE SplitSentencesFrom(s, start, i + 1)

SplitSentences(s) == SplitSentencesFrom(s, 1, 1)

\* the sentence loop of one oversized paragraph; acc = [sections, current]
RECURSIVE SentenceLoop(_, _, _)
SentenceLoop(sentences, acc, maxChars) ==
    IF sentences = << >> THEN acc
    ELSE LET sentence == Head(sentences)
             flush == Len(acc.current) + Len(sentence) + 1 > maxChars
                      /\ Len(acc.current) > 0
             sections == IF flush THEN Append(acc.sections, trim(acc.current))
                         ELSE acc.sections
             current == IF flush THEN << >> ELSE acc.current
         IN  SentenceLoop(Tail(sentences),
                 [sections |-> sections,
                  current |-> current \o (IF current # << >> THEN <<" ">> ELSE << >>)
                                      \o sentence],
                 maxChars)

\* the paragraph loop; acc = [sections, current]
RECURSIVE ParagraphLoop(_, _, _)
ParagraphLoop(paragraphs, acc, maxChars) ==
    IF paragraphs = << >> THEN acc
    ELSE LET para == Head(paragraphs)
             flush == Len(acc.current) + Len(para) + 2 > maxChars
                      /\ Len(acc.current) > 0
             sections1 == IF flush THEN Append(acc.sections, trim(acc.current))
                          ELSE acc.sections
             current1 == IF flush THEN << >> ELSE acc.current
             next ==
                 IF Len(para) > maxChars
                 THEN SentenceLoop(SplitSentences(para),
                          [sections |-> IF Len(current1) > 0
                                        THEN Append(sections1, trim(current1))
                                        ELSE sections1,
                           current |-> << >>],
                          maxChars)
                 ELSE [sections |-> sections1,
                       current |-> current1
                                   \o (IF current1 # << >> THEN <<"\n", "\n">> ELSE << >>)
                                   \o para]
         IN  ParagraphLoop(Tail(paragraphs), next, maxChars)

\* variant: the loops run with a budget one character too large
splitTextIntoSections_LooseBudget(text, maxChars) ==
    IF Len(text) <= maxChars THEN <<text>>
    ELSE LET paragraphs == SelectSeq(SplitParagraphs(text),
                                     LAMBDA p : Len(trim(p)) > 0)
             done == ParagraphLoop(paragraphs,
                                   [sections |-> << >>, current |-> << >>],
                                   maxChars + 1)
             sections == IF Len(trim(done.current)) > 0
                         THEN Append(done.sections, trim(done.current))
                         ELSE done.sections
         IN  IF Len(sections) > 0 THEN sections ELSE <<text>>

\* variant: the text left in current after the last paragraph is not pushed
splitTextIntoSections_DropLast(text, maxChars) ==
    IF Len(text) <= maxChars THEN <<text>>
    ELSE LET paragraphs == SelectSeq(SplitParagraphs(text),
                                     LAMBDA p : Len(trim(p)) > 0)
             done == ParagraphLoop(paragraphs,
                                   [sections |-> << >>, current |-> << >>], maxChars)
         IN  IF Len(done.sections) > 0 THEN done.sections ELSE <<text>>

splitTextIntoSections(text, maxChars) ==
    IF Len(text) <= maxChars THEN <<text>>
    ELSE LET paragraphs == SelectSeq(SplitParagraphs(text),
                                     LAMBDA p : Len(trim(p)) > 0)
             done == ParagraphLoop(paragraphs,
                                   [sections |-> << >>, current |-> << >>], maxChars)
             sections == IF Len(trim(done.current)) > 0
                         THEN Append(done.sections, trim(done.current))
                         ELSE done.sections
         IN  IF Len(sections) > 0 THEN sections ELSE <<text>>

(***************************************************************************)
(* State.                                                                  *)
(***************************************************************************)
VARIABLES
    status,         \* state.status
    current_text,   \* state.current_text
    default_voice,  \* state.default_voice
    history,        \* state.history, newest first
    jobs,           \* state.jobs: job id -> job record
    playback,       \* state.playback
    written,        \* every line written to python.stdin, in write order
    writtenReq,     \* for each written line, the number of the request it serves
    reqCount,       \* requests accepted so far
    nextId,         \* the next fresh uuid
    clock,          \* logical time of new Date()
    rc,             \* position of the reverse-client speak_mp3_combined handler
    jobArgs,        \* for each job, the arguments of the call that started it
    readPos,        \* processor: lines of stdin read so far
    workQ,          \* processor: indices of the lines queued for the worker
    procCur,        \* processor: index of the line the worker is on, 0 if idle
    partsDone,      \* processor: <<jobId, path>> of every part file it produced
    partsFailed,    \* processor: <<jobId, path>> of every part task that failed
    reply,          \* what the handler run in the last step returned (NoVal: nothing)
    sent            \* the messages broadcast to the WebSocket clients in the last step

serverVars == <<status, current_text, default_voice, history, jobs, playback>>
pipeVars == <<written, writtenReq>>
reqVars == <<reqCount, nextId, clock, rc, jobArgs>>
procVars == <<readPos, workQ, procCur, partsDone, partsFailed>>
outVars == <<reply, sent>>
vars == <<serverVars, pipeVars, reqVars, procVars, outVars>>

(***************************************************************************)
(* Input sets.                                                             *)
(***************************************************************************)
Hello == <<"h", "i">>
TwoParagraphs == <<"a", "a", "\n", "\n", "b", "b">>
SpeakTexts == {Hello}
HostOut == MP3_HOST_PREFIX \o <<"/", "o", ".", "M", "P", "3">>
PlainOut == <<"/", "x", "/", "o">>
\* the arguments of the speak_mp3_combined calls tried: a short text with every
\* default, and texts over the given budget with a host path / a path that has
\* no .mp3 suffix
CombineArgs ==
    {[text |-> Hello, mp3_path |-> NoPath, max_chars_per_section |-> 0,
      cleanup_parts |-> NoVal],
     [text |-> TwoParagraphs, mp3_path |-> HostOut, max_chars_per_section |-> 4,
      cleanup_parts |-> "false"],
     [text |-> TwoParagraphs, mp3_path |-> PlainOut, max_chars_per_section |-> 5,
      cleanup_parts |-> "true"]}
Commands == {"pause", "resume", "stop", "restart", "next", "previous", "start_at"}
OrderCommands == {"pause", "stop", "start_at"}
Phases == {"generating", "combining", "done", "error"}
ProgressPercents == {50}

NoRc == [active |-> FALSE]

\* Math.round((c / t) * 100)
MathRoundPercent(c, t) == (200 * c + t) \div (2 * t)

(***************************************************************************)
(* Writing to the processor: python.stdin.write(JSON.stringify(x) + "\n"). *)
(***************************************************************************)
stdinWrite(lines, line) == Append(lines, line)

(***************************************************************************)
(* broadcast(msg): the messages sent to the dashboard clients.             *)
(***************************************************************************)
JobSummary(job) ==
    [id |-> job.id, type |-> job.type, status |-> job.status, percent |-> job.percent,
     phase |-> job.phase, outputPath |-> containerToHostPath(job.outputPath)]

\* getPublicState() in a state with the given fields
getPublicState(st, text, voice, pb, js) ==
    [status |-> st,
     current_text |-> text,
     current_voice |-> "af_heart",
     default_voice |-> voice,
     playback |-> pb,
     activeJobs |-> [j \in DOMAIN js |-> JobSummary(js[j])]]

StatusBroadcast(st, text, voice, pb, js) ==
    [type |-> "status", data |-> getPublicState(st, text, voice, pb, js)]

HistoryBroadcast(h) == [type |-> "history", data |-> h]

ProgressBroadcast(jobId, percent, phase) ==
    [type |-> "progress", jobId |-> jobId, percent |-> percent, phase |-> phase]

ErrorBroadcast(message) == [type |-> "error", message |-> message]

(***************************************************************************)
(* addToHistory: unshift, then pop when longer than 50.                    *)
(***************************************************************************)
\* an eviction test that is off by one
addToHistory_EvictEarly(h, item) ==
    LET u == <<item>> \o h
    IN  IF Len(u) >= HistoryCap THEN SubSeq(u, 1, Len(u) - 1) ELSE u

\* variant: the item is pushed behind the existing entries
addToHistory_Append(h, item) ==
    LET u == h \o <<item>>
    IN  IF Len(u) > HistoryCap THEN SubSeq(u, 2, Len(u)) ELSE u

addToHistory(h, item) ==
    LET u == <<item>> \o h
    IN  IF Len(u) > HistoryCap THEN SubSeq(u, 1, Len(u) - 1) ELSE u

\* { ...payload, timestamp: new Date().toISOString() }
Stamped(payload, t) == [payload EXCEPT !.timestamp = t]

(***************************************************************************)
(* Task payloads.  A task line carries no type field in the code; "speak"  *)
(* stands for its absence.  jobId and timestamp are present only on part   *)
(* tasks and on replayed history items (NoJob, NoStamp otherwise).         *)
(***************************************************************************)
\* mp3_path ? hostToContainerPath(mp3_path) : null, then the generated default
ResolveMp3Path(mp3, mp3_path, t) ==
    LET given == IF mp3_path # NoPath THEN hostToContainerPath(mp3_path) ELSE NoPath
    IN  IF mp3 = "true" /\ given = NoPath
        THEN pathJoin(Mp3Dir, <<"t", "t", "s", "-">> \o Timestamp(t) \o DotMp3)
        ELSE given

buildSpeakPayload(id, text, voice, speed, mp3, mp3_path, mp3announce, t) ==
    [type |-> "speak",
     id |-> id,
     jobId |-> NoJob,
     text |-> text,
     voice |-> IF voice # NoVal THEN voice ELSE default_voice,
     speed |-> IF speed # 0 THEN speed ELSE 1,
     mp3 |-> (mp3 = "true"),
     mp3_path |-> ResolveMp3Path(mp3, mp3_path, t),
     mp3announce |-> (mp3announce = "true"),
     timestamp |-> NoStamp]

RECURSIVE AddAllToHistory(_, _, _)
AddAllToHistory(h, payloads, t) ==
    IF payloads = << >> THEN h
    ELSE AddAllToHistory(addToHistory(h, Stamped(Head(payloads), t)), Tail(payloads), t)

\* the history broadcasts of the same loop
RECURSIVE HistoryBroadcasts(_, _, _)
HistoryBroadcasts(h, payloads, t) ==
    IF payloads = << >> THEN << >>
    ELSE LET h1 == addToHistory(h, Stamped(Head(payloads), t))
         IN  <<HistoryBroadcast(h1)>> \o HistoryBroadcasts(h1, Tail(payloads), t)

RECURSIVE WriteAll(_, _)
WriteAll(lines, payloads) ==
    IF payloads = << >> THEN lines
    ELSE WriteAll(stdinWrite(lines, Head(payloads)), Tail(payloads))

Accept(n) ==
    /\ reqCount' = reqCount + 1
    /\ writtenReq' = writtenReq \o [i \in 1..n |-> reqCount + 1]
    /\ clock' = clock + 1

(***************************************************************************)
(* speak: the MCP tool (speakToolHandler), REST /api/speak and the         *)
(* reverse-client speak tools.                                             *)
(***************************************************************************)
SpeakPayloadWritten(payload) ==
    /\ history' = addToHistory(history, Stamped(payload, clock))
    /\ written' = stdinWrite(written, payload)
    /\ nextId' = nextId + 1
    /\ Accept(1)
    /\ reply' = "ok"
    /\ sent' = <<HistoryBroadcast(addToHistory(history, Stamped(payload, clock)))>>
    /\ UNCHANGED <<status, current_text, default_voice, jobs, playback, rc, jobArgs,
                   procVars>>

\* a request turned away with an error: nothing but the response
Rejected(response) ==
    /\ reply' = response
    /\ sent' = << >>
    /\ UNCHANGED <<serverVars, pipeVars, reqVars, procVars>>

speakToolHandler(text, voice, speed, mp3, mp3_path, mp3announce) ==
    SpeakPayloadWritten(
        buildSpeakPayload(nextId, text, voice, speed, mp3, mp3_path, mp3announce, clock))

ApiSpeak(text, voice, speed, mp3, mp3_path, mp3announce) ==
    IF text = << >> THEN Rejected("error")
    ELSE SpeakPayloadWritten(
           buildSpeakPayload(nextId, text, voice, speed, mp3, mp3_path, mp3announce, clock))

RcSpeak(text, voice, speed, mp3, mp3_path, mp3announce) ==
    IF text = << >> THEN Rejected("error")
    ELSE SpeakPayloadWritten(
           buildSpeakPayload(nextId, text, voice, speed, mp3, mp3_path, mp3announce, clock))

(***************************************************************************)
(* replay: REST /api/replay and the reverse-client replay tool.            *)
(***************************************************************************)
\* state.history.find(i => i.id === id): the first match, 0 if none
HistoryFind(id) ==
    LET hits == {i \in 1..Len(history) : history[i].id = id}
    IN  IF hits = {} THEN 0 ELSE CHOOSE i \in hits : \A k \in hits : i <= k

\* a replay that re-queues the item under its own id
ReplayWritten_SameId(id) ==
    IF HistoryFind(id) = 0 THEN Rejected("not found")
    ELSE /\ LET item == history[HistoryFind(id)]
                payload == item
            IN  /\ history' = addToHistory(history, Stamped(payload, clock))
                /\ written' = stdinWrite(written, payload)
                /\ sent' = <<HistoryBroadcast(
                                addToHistory(history, Stamped(payload, clock)))>>
         /\ nextId' = nextId + 1
         /\ Accept(1)
         /\ reply' = "ok"
         /\ UNCHANGED <<status, current_text, default_voice, jobs, playback, rc,
                        jobArgs, procVars>>

\* a replay that also puts the new time on the entry it replays
ReplayWritten_Restamp(id) ==
    IF HistoryFind(id) = 0 THEN Rejected("not found")
    ELSE /\ LET item == history[HistoryFind(id)]
                payload == [item EXCEPT !.id = nextId]
                touched == [history EXCEPT ![HistoryFind(id)].timestamp = clock]
            IN  /\ history' = addToHistory(touched, Stamped(payload, clock))
                /\ written' = stdinWrite(written, payload)
                /\ sent' = <<HistoryBroadcast(
                                addToHistory(touched, Stamped(payload, clock)))>>
         /\ nextId' = nextId + 1
         /\ Accept(1)
         /\ reply' = "ok"
         /\ UNCHANGED <<status, current_text, default_voice, jobs, playback, rc,
                        jobArgs, procVars>>

ReplayWritten(id) ==
    IF HistoryFind(id) = 0 THEN Rejected("not found")
    ELSE /\ LET item == history[HistoryFind(id)]
                payload == [item EXCEPT !.id = nextId]
            IN  /\ history' = addToHistory(history, Stamped(payload, clock))
                /\ written' = stdinWrite(written, payload)
                /\ sent' = <<HistoryBroadcast(
                                addToHistory(history, Stamped(payload, clock)))>>
         /\ nextId' = nextId + 1
         /\ Accept(1)
         /\ reply' = "ok"
         /\ UNCHANGED <<status, current_text, default_voice, jobs, playback, rc,
                        jobArgs, procVars>>

ApiReplay(id) == ReplayWritten(id)

RcReplay(id) == ReplayWritten(id)

\* a clear that drops only the newest entry
RcClearHistory_DropNewest ==
    /\ history' = SubSeq(history, 2, Len(history))
    /\ reply' = "ok"
    /\ sent' = << >>
    /\ UNCHANGED <<status, current_text, default_voice, jobs, playback,
                   pipeVars, reqVars, procVars>>

\* reverse-client clear_history: state.history.length = 0
RcClearHistory ==
    /\ history' = << >>
    /\ reply' = "ok"
    /\ sent' = << >>
    /\ UNCHANGED <<status, current_text, default_voice, jobs, playback,
                   pipeVars, reqVars, procVars>>

(***************************************************************************)
(* speak_mp3_combined: registering the job and queueing its parts.         *)
(***************************************************************************)
ResolveOutputPath(mp3_path, t) ==
    LET given == IF mp3_path # NoPath THEN hostToContainerPath(mp3_path) ELSE NoPath
    IN  IF given = NoPath
        THEN pathJoin(Mp3Dir,
                 <<"t", "t", "s", "-", "c", "o", "m", "b", "i", "n", "e", "d", "-">>
                     \o Timestamp(t) \o DotMp3)
        ELSE given

\* part files numbered from 0 instead of 1
PartPath_ZeroBased(baseName, k) ==
    baseName \o <<"-", "p", "a", "r", "t", "-">>
             \o padStart(String(k - 1), PadWidth, "0") \o DotMp3

\* `${baseName}-part-${String(i + 1).padStart(3, "0")}.mp3`, k = i + 1
PartPath(baseName, k) ==
    baseName \o <<"-", "p", "a", "r", "t", "-">> \o padStart(String(k), PadWidth, "0")
             \o DotMp3

PartPaths(containerOutputPath, n) ==
    [k \in 1..n |-> PartPath(StripDotMp3(containerOutputPath), k)]

\* variant: the job is registered as queued, to be started by its first event
NewJob_Queued(jobId, sections, containerOutputPath, cleanup_parts, t) ==
    [id |-> jobId,
     type |-> "combine",
     status |-> "queued",
     totalParts |-> Len(sections),
     completedParts |-> 0,
     percent |-> 0,
     phase |-> "queued",
     partPaths |-> PartPaths(containerOutputPath, Len(sections)),
     outputPath |-> containerOutputPath,
     cleanupParts |-> (cleanup_parts # "false"),
     createdAt |-> t,
     detail |-> NoVal]

NewJob(jobId, sections, containerOutputPath, cleanup_parts, t) ==
    [id |-> jobId,
     type |-> "combine",
     status |-> "generating",
     totalParts |-> Len(sections),
     completedParts |-> 0,
     percent |-> 0,
     phase |-> "generating",
     partPaths |-> PartPaths(containerOutputPath, Len(sections)),
     outputPath |-> containerOutputPath,
     cleanupParts |-> (cleanup_parts # "false"),
     createdAt |-> t,
     detail |-> NoVal]

PartPayload(id, jobId, text, voice, speed, partPath) ==
    [type |-> "speak",
     id |-> id,
     jobId |-> jobId,
     text |-> text,
     voice |-> voice,
     speed |-> speed,
     mp3 |-> TRUE,
     mp3_path |-> partPath,
     mp3announce |-> FALSE,
     timestamp |-> NoStamp]

\* the MCP tool: the loop runs to its end within the one call
McpSpeakMp3Combined(text, voice, speed, mp3_path, max_chars_per_section, cleanup_parts) ==
    LET maxChars == IF max_chars_per_section # 0 THEN max_chars_per_section
                    ELSE DefaultMaxChars
        sections == splitTextIntoSections(text, maxChars)
        jobId == nextId
        selectedVoice == IF voice # NoVal THEN voice ELSE default_voice
        selectedSpeed == IF speed # 0 THEN speed ELSE 1
        job == NewJob(jobId, sections, ResolveOutputPath(mp3_path, clock),
                      cleanup_parts, clock)
        parts == [k \in 1..Len(sections) |->
                     PartPayload(jobId + k, jobId, sections[k], selectedVoice,
                                 selectedSpeed, job.partPaths[k])]
    IN  /\ jobs' = jobs @@ (jobId :> job)
        /\ jobArgs' = jobArgs @@ (jobId :> [text |-> text, mp3_path |-> mp3_path,
                                            max_chars_per_section |-> max_chars_per_section,
                                            cleanup_parts |-> cleanup_parts])
        /\ history' = AddAllToHistory(history, parts, clock)
        /\ written' = WriteAll(written, parts)
        /\ nextId' = nextId + Len(sections) + 1
        /\ Accept(Len(sections))
        /\ reply' = "ok"
        /\ sent' = HistoryBroadcasts(history, parts, clock)
        /\ UNCHANGED <<status, current_text, default_voice, playback, rc, procVars>>

\* the reverse-client tool: the job is registered and the first part written,
\* then the handler waits for the write to be flushed before the next part
\* (one such call is in its loop at a time)
RcSpeakMp3Combined(text, voice, speed, mp3_path, max_chars_per_section, cleanup_parts) ==
    LET maxChars == IF max_chars_per_section # 0 THEN max_chars_per_section
                    ELSE DefaultMaxChars
        sections == splitTextIntoSections(text, maxChars)
        jobId == nextId
        selectedVoice == IF voice # NoVal THEN voice ELSE default_voice
        selectedSpeed == IF speed # 0 THEN speed ELSE 1
        job == NewJob(jobId, sections, ResolveOutputPath(mp3_path, clock),
                      cleanup_parts, clock)
        part == PartPayload(jobId + 1, jobId, sections[1], selectedVoice,
                            selectedSpeed, job.partPaths[1])
    IN  IF text = << >> THEN Rejected("error")
        ELSE
        /\ ~rc.active
        /\ jobs' = jobs @@ (jobId :> job)
        /\ jobArgs' = jobArgs @@ (jobId :> [text |-> text, mp3_path |-> mp3_path,
                                            max_chars_per_section |-> max_chars_per_section,
                                            cleanup_parts |-> cleanup_parts])
        /\ history' = addToHistory(history, Stamped(part, clock))
        /\ written' = stdinWrite(written, part)
        /\ nextId' = nextId + 2
        /\ rc' = IF Len(sections) > 1
                 THEN [active |-> TRUE, jobId |-> jobId, sections |-> sections,
                       partPaths |-> job.partPaths, voice |-> selectedVoice,
                       speed |-> selectedSpeed, i |-> 2, req |-> reqCount + 1]
                 ELSE NoRc
        /\ reqCount' = reqCount + 1
        /\ writtenReq' = Append(writtenReq, reqCount + 1)
        /\ clock' = clock + 1
        /\ reply' = IF Len(sections) > 1 THEN NoVal ELSE "ok"
        /\ sent' = <<HistoryBroadcast(addToHistory(history, Stamped(part, clock)))>>
        /\ UNCHANGED <<status, current_text, default_voice, playback, procVars>>

\* the loop body after `await sendToProcessor(...)` has resolved
RcSpeakMp3CombinedNext ==
    /\ rc.active
    /\ LET part == PartPayload(nextId, rc.jobId, rc.sections[rc.i], rc.voice,
                               rc.speed, rc.partPaths[rc.i])
       IN  /\ history' = addToHistory(history, Stamped(part, clock))
           /\ written' = stdinWrite(written, part)
           /\ sent' = <<HistoryBroadcast(addToHistory(history, Stamped(part, clock)))>>
    /\ nextId' = nextId + 1
    /\ reply' = IF rc.i < Len(rc.sections) THEN NoVal ELSE "ok"
    /\ rc' = IF rc.i < Len(rc.sections) THEN [rc EXCEPT !.i = rc.i + 1] ELSE NoRc
    /\ writtenReq' = Append(writtenReq, rc.req)
    /\ clock' = clock + 1
    /\ UNCHANGED <<status, current_text, default_voice, jobs, playback, reqCount,
                   jobArgs, procVars>>

\* the reverse-client tool when sendToProcessor rejects for the first part:
\* the job is registered and the part recorded, the part is not delivered, and
\* the handler ends with the error
RcSpeakMp3CombinedLost(text, voice, speed, mp3_path, max_chars_per_section, cleanup_parts) ==
    LET maxChars == IF max_chars_per_section # 0 THEN max_chars_per_section
                    ELSE DefaultMaxChars
        sections == splitTextIntoSections(text, maxChars)
        jobId == nextId
        selectedVoice == IF voice # NoVal THEN voice ELSE default_voice
        selectedSpeed == IF speed # 0 THEN speed ELSE 1
        job == NewJob(jobId, sections, ResolveOutputPath(mp3_path, clock),
                      cleanup_parts, clock)
        part == PartPayload(jobId + 1, jobId, sections[1], selectedVoice,
                            selectedSpeed, job.partPaths[1])
    IN  /\ text # << >>
        /\ ~rc.active
        /\ jobs' = jobs @@ (jobId :> job)
        /\ jobArgs' = jobArgs @@ (jobId :> [text |-> text, mp3_path |-> mp3_path,
                                            max_chars_per_section |-> max_chars_per_section,
                                            cleanup_parts |-> cleanup_parts])
        /\ history' = addToHistory(history, Stamped(part, clock))
        /\ nextId' = nextId + 2
        /\ reqCount' = reqCount + 1
        /\ clock' = clock + 1
        /\ reply' = "error"
        /\ sent' = <<HistoryBroadcast(addToHistory(history, Stamped(part, clock)))>>
        /\ UNCHANGED <<status, current_text, default_voice, playback, pipeVars, rc,
                       procVars>>

\* the same for a later part: the loop is left by the rejection
RcSpeakMp3CombinedNextLost ==
    /\ rc.active
    /\ LET part == PartPayload(nextId, rc.jobId, rc.sections[rc.i], rc.voice,
                               rc.speed, rc.partPaths[rc.i])
       IN  /\ history' = addToHistory(history, Stamped(part, clock))
           /\ sent' = <<HistoryBroadcast(addToHistory(history, Stamped(part, clock)))>>
    /\ nextId' = nextId + 1
    /\ reply' = "error"
    /\ rc' = NoRc
    /\ clock' = clock + 1
    /\ UNCHANGED <<status, current_text, default_voice, jobs, playback, pipeVars,
                   reqCount, jobArgs, procVars>>

(***************************************************************************)
(* The default voice: REST /api/control set_voice and the reverse-client   *)
(* set_default_voice tool.                                                 *)
(***************************************************************************)
\* the ids of AVAILABLE_VOICES
AVAILABLE_VOICES ==
    {"af_heart", "af_bella", "af_nicole", "af_sarah", "af_sky", "am_adam",
     "am_michael", "bf_emma", "bf_isabella", "bm_george", "bm_lewis"}

\* /api/control with command set_voice: the voice is stored as given
ApiSetVoice(voice) ==
    /\ default_voice' = voice
    /\ reply' = "ok"
    /\ sent' = <<StatusBroadcast(status, current_text, voice, playback, jobs)>>
    /\ UNCHANGED <<status, current_text, history, jobs, playback, pipeVars, reqVars,
                   procVars>>

\* set_default_voice: a missing or unknown voice is turned away
RcSetDefaultVoice(voice) ==
    IF voice = NoVal THEN Rejected("error")
    ELSE IF voice \notin AVAILABLE_VOICES THEN Rejected("unknown voice")
    ELSE /\ default_voice' = voice
         /\ reply' = "voice changed"
         /\ sent' = << >>
         /\ UNCHANGED <<status, current_text, history, jobs, playback, pipeVars,
                        reqVars, procVars>>

(***************************************************************************)
(* Control commands: sendControl / sendControlFromRC write the command to  *)
(* the same stdin stream as the tasks.                                     *)
(***************************************************************************)
ControlMsg(command, index) ==
    IF command = "start_at"
    THEN [type |-> "control", command |-> command, index |-> index]
    ELSE [type |-> "control", command |-> command]

\* a control command put ahead of the lines the processor has not read yet
sendControl_Priority(lines, command, index) ==
    SubSeq(lines, 1, readPos) \o <<ControlMsg(command, index)>>
        \o SubSeq(lines, readPos + 1, Len(lines))

sendControl(lines, command, index) == stdinWrite(lines, ControlMsg(command, index))

sendControlFromRC(lines, command, index) == stdinWrite(lines, ControlMsg(command, index))

\* what every control handler does besides changing state.playback
ControlWritten ==
    /\ Accept(1)
    /\ reply' = "ok"
    /\ UNCHANGED <<status, current_text, default_voice, history, jobs, nextId, rc,
                   jobArgs, procVars>>

\* the MCP tools pause, resume, stop, restart, next, previous, start_at
McpControl(command, index) ==
    LET pb == CASE command = "pause" -> [playback EXCEPT !.paused = TRUE]
                [] command = "resume" -> [playback EXCEPT !.paused = FALSE]
                [] command = "stop" ->
                     [playback EXCEPT !.paused = FALSE, !.currentJobId = NoJob]
                [] command = "restart" -> [playback EXCEPT !.paused = FALSE]
                [] OTHER -> playback
    IN  /\ written' = sendControl(written, command, index)
        /\ playback' = pb
        /\ sent' = IF command \in {"pause", "resume", "stop", "restart"}
                   THEN <<StatusBroadcast(status, current_text, default_voice, pb, jobs)>>
                   ELSE << >>
        /\ ControlWritten

\* REST /api/control with one of the playback commands
ApiControl(command, index) ==
    LET pb == CASE command = "pause" -> [playback EXCEPT !.paused = TRUE]
                [] command = "resume" -> [playback EXCEPT !.paused = FALSE]
                [] command = "stop" ->
                     [playback EXCEPT !.paused = FALSE, !.currentJobId = NoJob]
                [] OTHER -> playback
    IN  /\ written' = sendControl(written, command, index)
        /\ playback' = pb
        /\ sent' = IF command # "start_at"
                   THEN <<StatusBroadcast(status, current_text, default_voice, pb, jobs)>>
                   ELSE << >>
        /\ ControlWritten

\* the reverse-client tools pause_playback ... start_at
RcControl(command, index) ==
    LET pb == CASE command = "pause" -> [playback EXCEPT !.paused = TRUE]
                [] command = "resume" -> [playback EXCEPT !.paused = FALSE]
                [] command = "stop" ->
                     [playback EXCEPT !.paused = FALSE, !.currentJobId = NoJob]
                [] command = "restart" -> [playback EXCEPT !.paused = FALSE]
                [] OTHER -> playback
    IN  IF command = "start_at" /\ index < 0 THEN Rejected("error")
        ELSE /\ written' = sendControlFromRC(written, command, index)
             /\ playback' = pb
             /\ sent' = << >>
             /\ ControlWritten

(***************************************************************************)
(* handlePythonMessage, one definition per branch.  Each gives the next    *)
(* value of status, current_text, jobs and written.                        *)
(***************************************************************************)
\* variant: the state of the message is stored as it is
HandleStatus_KeepReady(msg) ==
    LET st == msg.state
        text == IF msg.state = "processing"
                THEN (IF msg.text # << >> THEN msg.text ELSE current_text)
                ELSE << >>
    IN  /\ status' = st
        /\ current_text' = text
        /\ sent' = <<StatusBroadcast(st, text, default_voice, playback, jobs)>>
        /\ UNCHANGED <<jobs, written>>

\* variant: the current text is replaced only when the message carries one
HandleStatus_KeepText(msg) ==
    LET st == IF msg.state = "ready" THEN "idle" ELSE msg.state
        text == IF msg.text # << >> THEN msg.text ELSE current_text
    IN  /\ status' = st
        /\ current_text' = text
        /\ sent' = <<StatusBroadcast(st, text, default_voice, playback, jobs)>>
        /\ UNCHANGED <<jobs, written>>

HandleStatus(msg) ==
    LET st == IF msg.state = "ready" THEN "idle" ELSE msg.state
        text == IF msg.state = "processing"
                THEN (IF msg.text # << >> THEN msg.text ELSE current_text)
                ELSE << >>
    IN  /\ status' = st
        /\ current_text' = text
        /\ sent' = <<StatusBroadcast(st, text, default_voice, playback, jobs)>>
        /\ UNCHANGED <<jobs, written>>

\* variant: an event whose id names no job is applied to the first job
HandleProgress_FallbackJob(msg) ==
    LET id == IF msg.jobId \in DOMAIN jobs \/ DOMAIN jobs = {} THEN msg.jobId
              ELSE CHOOSE j \in DOMAIN jobs : \A k \in DOMAIN jobs : j <= k
    IN  /\ jobs' = IF id \in DOMAIN jobs
                   THEN [jobs EXCEPT ![id] =
                            [@ EXCEPT !.percent = msg.percent,
                                      !.phase = IF msg.phase # NoVal THEN msg.phase
                                                ELSE @,
                                      !.detail = msg.detail]]
                   ELSE jobs
        /\ sent' = <<ProgressBroadcast(msg.jobId, msg.percent, msg.phase)>>
        /\ UNCHANGED <<status, current_text, written>>

HandleProgress(msg) ==
    /\ jobs' = IF msg.jobId \in DOMAIN jobs
               THEN [jobs EXCEPT ![msg.jobId] =
                        [@ EXCEPT !.percent = msg.percent,
                                  !.phase = IF msg.phase # NoVal THEN msg.phase
                                            ELSE @,
                                  !.detail = msg.detail]]
               ELSE jobs
    /\ sent' = <<ProgressBroadcast(msg.jobId, msg.percent, msg.phase)>>
    /\ UNCHANGED <<status, current_text, written>>

\* variant: the completion count is cleared when the concatenation starts
CombiningJob_ResetCount(job) ==
    [job EXCEPT !.phase = "combining", !.status = "combining", !.completedParts = 0]

\* combineMp3Parts(job): the fields it sets and the command it writes
CombiningJob(job) == [job EXCEPT !.phase = "combining", !.status = "combining"]

combinePayload(job) ==
    [type |-> "combine_mp3",
     jobId |-> job.id,
     partPaths |-> job.partPaths,
     outputPath |-> job.outputPath,
     cleanupParts |-> (job.cleanupParts # FALSE)]

\* the job after one more completion event, before the combine check
CompletedOneMore(job) ==
    [job EXCEPT !.completedParts = job.completedParts + 1,
                !.percent = MathRoundPercent(job.completedParts + 1, job.totalParts)]

\* a completion check that is off by one
AllPartsDone_OffByOne(job) == job.completedParts > job.totalParts

\* the condition under which the completion handler calls combineMp3Parts
AllPartsDone(job) == job.completedParts >= job.totalParts

HandleMp3Complete(msg) ==
    /\ IF msg.jobId \in DOMAIN jobs /\ jobs[msg.jobId].type = "combine"
       THEN LET job == CompletedOneMore(jobs[msg.jobId])
            IN  IF AllPartsDone(job)
                THEN /\ jobs' = [jobs EXCEPT ![msg.jobId] = CombiningJob(job)]
                     /\ written' = stdinWrite(written, combinePayload(job))
                     /\ sent' = <<ProgressBroadcast(job.id, job.percent, "generating"),
                                  ProgressBroadcast(job.id, CombiningPercent,
                                                    "combining")>>
                ELSE /\ jobs' = [jobs EXCEPT ![msg.jobId] = job]
                     /\ sent' = <<ProgressBroadcast(job.id, job.percent, "generating")>>
                     /\ UNCHANGED written
       ELSE /\ sent' = << >>
            /\ UNCHANGED <<jobs, written>>
    /\ UNCHANGED <<status, current_text>>

HandleError(msg) ==
    /\ sent' = <<ErrorBroadcast(msg.message)>>
    /\ UNCHANGED <<status, current_text, jobs, written>>

(***************************************************************************)
(* python.stdout.on("data"): the chunk is split into lines; a blank line   *)
(* is skipped, a line is parsed and handed to handlePythonMessage, and     *)
(* whatever either of them throws is caught and the line logged.  A line   *)
(* is blank, text that is no JSON, the JSON value null, or a JSON object.  *)
(***************************************************************************)
\* line = [kind |-> "blank" / "text" / "null"] or [kind |-> "object", msg |-> m]
Line(kind) == [kind |-> kind]

ObjectLine(msg) == [kind |-> "object", msg |-> msg]

\* the line reaches a branch of handlePythonMessage
Recognized(line) ==
    /\ line.kind = "object"
    /\ line.msg.type \in {"status", "progress", "mp3_complete", "error"}

\* a loop that is left at the first line that is not a recognized message
HandledMessages_StopAtFirstBad(lines) ==
    LET bad == {i \in 1..Len(lines) : ~Recognized(lines[i])}
        n == IF bad = {} THEN Len(lines)
             ELSE (CHOOSE i \in bad : \A k \in bad : i <= k) - 1
    IN  [i \in 1..n |-> lines[i].msg]

\* the messages of a chunk that are handled, in order
HandledMessages(lines) ==
    LET good == SelectSeq(lines, Recognized)
    IN  [i \in 1..Len(good) |-> good[i].msg]

handlePythonMessage(msg) ==
    CASE msg.type = "status" -> HandleStatus(msg)
      [] msg.type = "progress" -> HandleProgress(msg)
      [] msg.type = "mp3_complete" -> HandleMp3Complete(msg)
      [] msg.type = "error" -> HandleError(msg)

\* one data event, for chunks that hold at most one recognized message
StdoutData(lines) ==
    /\ Len(SelectSeq(lines, Recognized)) <= 1
    /\ IF HandledMessages(lines) = << >>
       THEN /\ sent' = << >>
            /\ UNCHANGED <<status, current_text, jobs, written>>
       ELSE handlePythonMessage(Head(HandledMessages(lines)))
    /\ writtenReq' = IF written' # written THEN Append(writtenReq, 0) ELSE writtenReq
    \* JSON.parse throws on text, handlePythonMessage on null: the line is logged
    /\ reply' = IF \E i \in 1..Len(lines) : lines[i].kind \in {"text", "null"}
                THEN "logged" ELSE NoVal
    /\ UNCHANGED <<default_voice, history, playback, reqVars, procVars>>

(***************************************************************************)
(* The processor (processor.py is not among the sources): a reader takes   *)
(* stdin lines in order, applies control commands at once and queues the   *)
(* rest for the single worker; the worker reports on each queued line.     *)
(* Every message the processor emits is handled by handlePythonMessage.    *)
(***************************************************************************)
ProcRead ==
    /\ readPos < Len(written)
    /\ readPos' = readPos + 1
    /\ LET line == written[readPos + 1]
       IN  workQ' = IF line.type = "control"
                    THEN IF line.command = "stop"
                         THEN SelectSeq(workQ, LAMBDA i : written[i].type # "speak")
                         ELSE workQ
                    ELSE Append(workQ, readPos + 1)
    /\ reply' = NoVal
    /\ sent' = << >>
    /\ UNCHANGED <<serverVars, pipeVars, reqVars, procCur, partsDone, partsFailed>>

WorkerStart ==
    /\ procCur = 0
    /\ workQ # << >>
    /\ procCur' = Head(workQ)
    /\ workQ' = Tail(workQ)
    /\ reply' = NoVal
    /\ sent' = << >>
    /\ UNCHANGED <<serverVars, pipeVars, reqVars, readPos, partsDone, partsFailed>>

\* what the handlers leave alone, and the request number (none) of a line
\* written by a handler
Handled ==
    /\ writtenReq' = IF written' # written THEN Append(writtenReq, 0) ELSE writtenReq
    /\ reply' = NoVal
    /\ UNCHANGED <<default_voice, history, playback, reqVars, readPos, workQ>>

\* a progress report on the line the worker is on
WorkerProgress(percent) ==
    /\ procCur # 0
    /\ written[procCur].jobId # NoJob
    /\ HandleProgress([type |-> "progress", jobId |-> written[procCur].jobId,
                       percent |-> percent,
                       phase |-> IF written[procCur].type = "combine_mp3"
                                 THEN "combining" ELSE "generating",
                       detail |-> ""])
    /\ Handled
    /\ UNCHANGED <<procCur, partsDone, partsFailed>>

\* a task ends: an MP3 task reports mp3_complete, a failed task reports error
WorkerFinishTask(ok) ==
    /\ procCur # 0
    /\ written[procCur].type = "speak"
    /\ LET task == written[procCur]
           part == IF task.jobId # NoJob /\ task.mp3
                   THEN {<<task.jobId, task.mp3_path>>} ELSE {}
       IN  /\ partsDone' = IF ok THEN partsDone \cup part ELSE partsDone
           /\ partsFailed' = IF ok THEN partsFailed ELSE partsFailed \cup part
           /\ IF ok
              THEN IF task.mp3
                   THEN HandleMp3Complete([type |-> "mp3_complete",
                                           jobId |-> task.jobId])
                   ELSE /\ sent' = << >>
                        /\ UNCHANGED <<status, current_text, jobs, written>>
              ELSE HandleError([type |-> "error", message |-> "synthesis failed"])
    /\ procCur' = 0
    /\ Handled

\* a concatenation ends: success is reported as progress done / 100
WorkerFinishCombine(ok) ==
    /\ procCur # 0
    /\ written[procCur].type = "combine_mp3"
    /\ IF ok
       THEN HandleProgress([type |-> "progress", jobId |-> written[procCur].jobId,
                            percent |-> 100, phase |-> "done", detail |-> ""])
       ELSE HandleError([type |-> "error", message |-> "combine failed"])
    /\ procCur' = 0
    /\ Handled
    /\ UNCHANGED <<partsDone, partsFailed>>

\* a status report
ProcStatus(state, text) ==
    /\ HandleStatus([type |-> "status", state |-> state, text |-> text])
    /\ Handled
    /\ UNCHANGED <<procCur, partsDone, partsFailed>>

(***************************************************************************)
(* Initial state: mcp_server.js `state`, nothing written, processor idle.  *)
(***************************************************************************)
Init ==
    /\ status = "initializing"
    /\ current_text = << >>
    /\ default_voice = "af_heart"
    /\ history = << >>
    /\ jobs = << >>
    /\ playback = [paused |-> FALSE, currentJobId |-> NoJob, currentIndex |-> 0]
    /\ written = << >>
    /\ writtenReq = << >>
    /\ reqCount = 0
    /\ nextId = 1
    /\ clock = 1
    /\ rc = NoRc
    /\ jobArgs = << >>
    /\ readPos = 0
    /\ workQ = << >>
    /\ procCur = 0
    /\ partsDone = {}
    /\ partsFailed = {}
    /\ reply = NoVal
    /\ sent = << >>

(***************************************************************************)
(* Combine jobs, replay and the processor.                                 *)
(***************************************************************************)
MoreRequests == reqCount < MaxRequests

MoreJobs == Cardinality(DOMAIN jobs) < MaxJobs

Speak ==
    /\ MoreRequests
    /\ \E text \in SpeakTexts :
          speakToolHandler(text, NoVal, 0, NoVal, NoPath, NoVal)

Replay ==
    /\ MoreRequests
    /\ \E i \in 1..Len(history) : ApiReplay(history[i].id)

McpCombine ==
    /\ MoreRequests
    /\ MoreJobs
    /\ \E a \in CombineArgs :
          McpSpeakMp3Combined(a.text, NoVal, 0, a.mp3_path, a.max_chars_per_section,
                              a.cleanup_parts)

RcCombine ==
    /\ MoreRequests
    /\ MoreJobs
    /\ \E a \in CombineArgs :
          RcSpeakMp3Combined(a.text, NoVal, 0, a.mp3_path, a.max_chars_per_section,
                             a.cleanup_parts)

RcCombineNext == RcSpeakMp3CombinedNext

Progress == \E percent \in ProgressPercents : WorkerProgress(percent)

FinishTask == \E ok \in BOOLEAN : WorkerFinishTask(ok)

FinishCombine == \E ok \in BOOLEAN : WorkerFinishCombine(ok)

Next ==
    \/ Speak
    \/ Replay
    \/ McpCombine
    \/ RcCombine
    \/ RcCombineNext
    \/ ProcRead
    \/ WorkerStart
    \/ Progress
    \/ FinishTask
    \/ FinishCombine

Spec == Init /\ [][Next]_vars

(***************************************************************************)
(* Properties of the combine jobs.                                         *)
(***************************************************************************)
IsCombineFor(line, j) == line.type = "combine_mp3" /\ line.jobId = j

CombineWrites(j) == {i \in 1..Len(written) : IsCombineFor(written[i], j)}

\* C1: for every combine job at most one combine_mp3 command is ever written
\* to the processor; a completion event that arrives after the concatenation
\* was triggered triggers no second one.
C1_AtMostOneCombine ==
    \A j \in DOMAIN jobs : Cardinality(CombineWrites(j)) <= 1

\* C2: a combine_mp3 command is on the stream only if every one of the part
\* files it names was produced by the processor (completion is per part).
C2_CombineOnlyWhenEveryPartDone ==
    \A i \in 1..Len(written) :
        written[i].type = "combine_mp3" =>
            \A k \in 1..Len(written[i].partPaths) :
                <<written[i].jobId, written[i].partPaths[k]>> \in partsDone

\* C4: a job's stored percent never decreases from one step to the next, and
\* it is 100 only when the job's phase is done.
C4_PercentMonotoneAndFullOnlyWhenDone ==
    [][\A j \in DOMAIN jobs :
          /\ jobs'[j].percent >= jobs[j].percent
          /\ jobs'[j].percent = 100 => jobs'[j].phase = "done"]_vars

\* C5: while a job is in the generating phase its percent is
\* 100 * completedParts / totalParts, rounded.
C5_GeneratingPercentIsRatio ==
    \A j \in DOMAIN jobs :
        jobs[j].phase = "generating" =>
            jobs[j].percent = MathRoundPercent(jobs[j].completedParts, jobs[j].totalParts)

\* C6: when the processor reports an error for a part task of a job, that
\* step sets the job's phase to error and keeps its completed parts, and no
\* combine_mp3 command is written for a job that had a part fail.
C6_PartErrorMarksJob ==
    [][\A p \in partsFailed' :
          /\ p \notin partsFailed =>
                /\ jobs'[p[1]].phase = "error"
                /\ jobs'[p[1]].completedParts = jobs[p[1]].completedParts
          /\ CombineWrites(p[1])' \subseteq CombineWrites(p[1])]_vars

\* C3: the completion event that brings a generating job to totalParts moves
\* the job to combining in the same step and writes one combine_mp3 command
\* with the job's id, its part paths in part order, its output path and the
\* cleanup flag (true unless the request passed cleanup_parts = false).
C3_LastCompletionTriggersCombine ==
    [][\A j \in DOMAIN jobs :
          (/\ jobs[j].phase = "generating"
           /\ jobs[j].completedParts < jobs[j].totalParts
           /\ jobs'[j].completedParts = jobs[j].totalParts)
          => /\ jobs'[j].phase = "combining"
             /\ written' = Append(written,
                    [type |-> "combine_mp3",
                     jobId |-> j,
                     partPaths |-> jobs[j].partPaths,
                     outputPath |-> jobs[j].outputPath,
                     cleanupParts |-> (jobArgs[j].cleanup_parts # "false")])]_vars

\* a two-part job started with cleanup_parts = false has been moved to
\* combining by its second completion event, with its command on the stream
C3_Witness ==
    \E j \in DOMAIN jobs :
        /\ jobs[j].phase = "combining"
        /\ jobs[j].totalParts = 2
        /\ jobs[j].completedParts = 2
        /\ jobArgs[j].cleanup_parts = "false"
        /\ \E i \in CombineWrites(j) : written[i].cleanupParts = FALSE

\* k as three decimal digits (k < 1000)
ThreeDigits(k) ==
    <<DigitChar(k \div 100), DigitChar((k \div 10) % 10), DigitChar(k % 10)>>

\* <base>-part-NNN.mp3 for the final output path out
PartFileName(out, k) ==
    StripDotMp3(out) \o <<"-", "p", "a", "r", "t", "-">> \o ThreeDigits(k) \o DotMp3

\* the part tasks the job's own handler wrote (a replayed item carries the
\* timestamp of its history entry, a part task written by the handler none)
FreshPartLines(j) ==
    SelectSeq(written,
              LAMBDA l : l.type = "speak" /\ l.jobId = j /\ l.timestamp = NoStamp)

SectionsOf(a) ==
    splitTextIntoSections(a.text,
        IF a.max_chars_per_section # 0 THEN a.max_chars_per_section
        ELSE DefaultMaxChars)

RestSpeak ==
    /\ MoreRequests
    /\ \E text \in SpeakTexts : ApiSpeak(text, NoVal, 0, NoVal, NoPath, NoVal)

ToolSpeak ==
    /\ MoreRequests
    /\ \E text \in SpeakTexts : RcSpeak(text, NoVal, 0, NoVal, NoPath, NoVal)

ToolReplay ==
    /\ MoreRequests
    /\ \E i \in 1..Len(history) : RcReplay(history[i].id)

McpControlCall ==
    /\ MoreRequests
    /\ \E command \in OrderCommands : McpControl(command, 1)

ApiControlCall ==
    /\ MoreRequests
    /\ \E command \in OrderCommands : ApiControl(command, 1)

RcControlCall ==
    /\ MoreRequests
    /\ \E command \in OrderCommands : RcControl(command, 1)

NextOrder ==
    \/ Speak
    \/ RestSpeak
    \/ ToolSpeak
    \/ Replay
    \/ ToolReplay
    \/ McpCombine
    \/ RcCombine
    \/ RcCombineNext
    \/ McpControlCall
    \/ ApiControlCall
    \/ RcControlCall
    \/ ProcRead

SpecOrder == Init /\ [][NextOrder]_vars

IsTask(line) == line.type = "speak"

IsControl(line) == line.type = "control"

\* C8: task lines are written in the order in which their requests were
\* accepted: no task is written ahead of a task of an earlier request.
C8_TasksWrittenInRequestOrder ==
    \A i, k \in 1..Len(written) :
        (i < k /\ IsTask(written[i]) /\ IsTask(written[k]))
            => writtenReq[i] <= writtenReq[k]

\* C9 as stated: a control command is never queued behind a task line that
\* the processor has not read yet.
C9_ControlNeverBehindUnreadTask ==
    \A i, k \in (readPos + 1)..Len(written) :
        i < k => ~(IsTask(written[i]) /\ IsControl(written[k]))

ControlLines(lines) == {i \in 1..Len(lines) : IsControl(lines[i])}

\* C9 as amended: a control command is written to the same stdin stream as
\* the tasks, as its last line, behind every line written before it.
C9_ControlAppendedToTaskStream ==
    [][Cardinality(ControlLines(written')) > Cardinality(ControlLines(written))
          => /\ Len(written') = Len(written) + 1
             /\ SubSeq(written', 1, Len(written)) = written
             /\ IsControl(written'[Len(written')])]_vars

\* the processor has read a stop command that was written behind a task, after
\* that task
C9_Witness ==
    \E i, k \in 1..readPos :
        /\ i < k
        /\ IsTask(written[i])
        /\ IsControl(written[k])
        /\ written[k].command = "stop"

(***************************************************************************)
(* The history ring: speak, replay and clear_history, for more insertions  *)
(* than the ring holds.                                                    *)
(***************************************************************************)
MoreHistWrites == Len(written) < MaxHistWrites

HistSpeak ==
    /\ MoreHistWrites
    /\ \E text \in SpeakTexts :
          speakToolHandler(text, NoVal, 0, NoVal, NoPath, NoVal)

\* a replay, into a full history, of its newest or of its oldest entry
HistReplay ==
    /\ MoreHistWrites
    /\ Len(history) = HistoryCap
    /\ \E id \in {history[1].id, history[Len(history)].id} : ApiReplay(id)

\* clear_history, on a history that nothing was removed from yet
HistClear ==
    /\ Len(history) = Len(written)
    /\ RcClearHistory

NextHist ==
    \/ HistSpeak
    \/ HistReplay
    \/ HistClear

SpecHist == Init /\ [][NextHist]_vars

Min(a, b) == IF a <= b THEN a ELSE b

\* C10: the history never holds more than 50 entries and is ordered newest
\* first; an insertion puts the new entry at index 0 and shifts the others by
\* one, and an insertion into a full history drops exactly the oldest entry.
C10_HistoryBoundedNewestFirst ==
    /\ [](/\ Len(history) <= HistoryCap
          /\ \A i, k \in 1..Len(history) :
                i < k => history[i].timestamp >= history[k].timestamp)
    /\ [][Len(written') = Len(written) + 1
             => /\ Len(history') = Min(Len(history) + 1, HistoryCap)
                /\ history'[1].id = written'[Len(written')].id
                /\ history'[1].id \notin {history[i].id : i \in 1..Len(history)}
                /\ SubSeq(history', 2, Len(history'))
                      = SubSeq(history, 1, Len(history') - 1)]_vars

\* the 51st insertion: the history is full, its newest entry is the 51st task
\* and the first task is gone
C10_Witness ==
    /\ Len(written) = HistoryCap + 1
    /\ Len(history) = HistoryCap
    /\ history[1].id = written[HistoryCap + 1].id
    /\ \A i \in 1..Len(history) : history[i].id # written[1].id

\* the entries of h are all in h2, in their order, as its oldest entries, but
\* for the `dropped` oldest ones
KeptButOldest(h, h2, dropped) ==
    /\ dropped <= Len(h)
    /\ Len(h2) >= Len(h) - dropped
    /\ SubSeq(h2, Len(h2) - (Len(h) - dropped) + 1, Len(h2))
          = SubSeq(h, 1, Len(h) - dropped)

\* C11 as stated: the history is append-only; an entry leaves it only when it
\* is the oldest entry of a history at its capacity of 50 and a new entry is
\* inserted, and no operation removes an entry in any other way.
C11_OnlyEvictionRemoves ==
    [][\/ KeptButOldest(history, history', 0)
       \/ /\ Len(history) = HistoryCap
          /\ Len(history') = HistoryCap
          /\ KeptButOldest(history, history', 1)]_vars

\* C11 as amended: an entry leaves the history only by that eviction, or when
\* clear_history empties the whole history at once (writing nothing).
C11_OnlyEvictionOrClearRemoves ==
    [][\/ KeptButOldest(history, history', 0)
       \/ /\ Len(history) = HistoryCap
          /\ Len(history') = HistoryCap
          /\ KeptButOldest(history, history', 1)
       \/ /\ history' = << >>
          /\ written' = written
          /\ reply' = "ok"]_vars

\* a full history was cleared: the 50 tasks are written and none is recorded
C11_Witness ==
    /\ Len(written) = HistoryCap
    /\ history = << >>

(***************************************************************************)
(* History entries under the operations that keep them: speak, replay,     *)
(* the default voice, control commands, and a combine job making progress. *)
(***************************************************************************)
\* a known voice, a voice that is not among the known ones, and no voice
VoiceArgs == {"am_adam", "xx_nobody", NoVal}

\* ids handed to replay: every id given out so far and one not given out yet
ReplayIds == 1..nextId

\* a replay that is refused is not an accepted request
FrameReplay ==
    \E id \in ReplayIds :
        /\ HistoryFind(id) # 0 => MoreRequests
        /\ ApiReplay(id)

FrameToolReplay ==
    \E id \in ReplayIds :
        /\ HistoryFind(id) # 0 => MoreRequests
        /\ RcReplay(id)

\* the default voice is changed from its initial value only
ApiSetVoiceCall ==
    /\ default_voice = "af_heart"
    /\ \E voice \in VoiceArgs : ApiSetVoice(voice)

RcSetVoiceCall ==
    /\ default_voice = "af_heart"
    /\ \E voice \in VoiceArgs : RcSetDefaultVoice(voice)

\* stop, from each front-end
FrameControl ==
    /\ MoreRequests
    /\ \/ McpControl("stop", 0)
       \/ ApiControl("stop", 0)
       \/ RcControl("stop", 0)

\* a combine job of two parts
FrameCombine ==
    /\ MoreRequests
    /\ MoreJobs
    /\ McpSpeakMp3Combined(TwoParagraphs, NoVal, 0, HostOut, 4, "false")

NextFrame ==
    \/ Speak
    \/ Replay
    \/ ToolReplay
    \/ ApiSetVoiceCall
    \/ RcSetVoiceCall
    \/ FrameControl
    \/ FrameCombine
    \/ ProcRead
    \/ WorkerStart
    \/ Progress
    \/ FinishTask
    \/ FinishCombine

SpecFrame == Init /\ [][NextFrame]_vars

\* replay on its own: tasks of several voices and speeds are recorded,
\* replayed and cleared
VoicedSpeak ==
    /\ MoreRequests
    /\ \E voice \in {NoVal, "am_adam"}, speed \in {0, 2} :
          ApiSpeak(Hello, voice, speed, NoVal, NoPath, NoVal)

NextReplay ==
    \/ VoicedSpeak
    \/ FrameCombine
    \/ FrameReplay
    \/ FrameToolReplay
    \/ RcClearHistory

SpecReplay == Init /\ [][NextReplay]_vars

HistoryIds(h) == {h[i].id : i \in 1..Len(h)}

\* what a replay of id must have done in a step
Replayed(id) ==
    IF id \in HistoryIds(history)
    THEN LET original == history[HistoryFind(id)]
             line == written'[Len(written')]
         IN  /\ Len(written') = Len(written) + 1
             /\ SubSeq(written', 1, Len(written)) = written
             /\ line.text = original.text
             /\ line.voice = original.voice
             /\ line.speed = original.speed
             /\ line.id # original.id
             /\ line.id \notin HistoryIds(history)
             /\ Len(history') = Min(Len(history) + 1, HistoryCap)
             /\ history'[1] = [line EXCEPT !.timestamp = history'[1].timestamp]
             /\ SubSeq(history', 2, Len(history'))
                   = SubSeq(history, 1, Len(history') - 1)
    ELSE /\ written' = written
         /\ history' = history
         /\ reply' = "not found"

C13_HistoryEntriesImmutable ==
    [][\A k \in 1..Len(history) :
          history[k].id \in HistoryIds(history')
              => \E i \in 1..Len(history') : history'[i] = history[k]]_vars

\* the first part of a combine job was replayed, the default voice was changed
\* and the job has made progress: the part's entry still has its id and time
C13_Witness ==
    /\ default_voice = "am_adam"
    /\ \E j \in DOMAIN jobs : jobs[j].percent > 0
    /\ Len(history) = 3
    /\ history[3].id = 2
    /\ history[3].timestamp = 1
    /\ history[1].text = history[3].text
    /\ history[1].id # history[3].id
    /\ history[1].timestamp > history[3].timestamp

(***************************************************************************)
(* Playback control: a task being processed, stop, pause, resume and       *)
(* restart from every front-end, and the processor reporting its status.   *)
(* The processor is processing while its worker is on a task that no stop  *)
(* was read after, and idle otherwise.                                     *)
(***************************************************************************)
MoreLines == Len(written) < MaxLines

IsStop(line) == IsControl(line) /\ line.command = "stop"

ProcState ==
    IF /\ procCur # 0
       /\ IsTask(written[procCur])
       /\ \A k \in (procCur + 1)..readPos : ~IsStop(written[k])
    THEN "processing"
    ELSE "idle"

\* the processor reports the state it is in when the server holds another one
\* ("ready" once, after loading)
ProcReport ==
    /\ status # ProcState
    /\ ProcStatus(IF status = "initializing" THEN "ready" ELSE ProcState,
                  IF ProcState = "processing" THEN written[procCur].text ELSE << >>)

StopSpeak ==
    /\ MoreLines
    /\ speakToolHandler(Hello, NoVal, 0, NoVal, NoPath, NoVal)

\* stop, issued while the status is processing
StopCall ==
    /\ MoreLines
    /\ status = "processing"
    /\ \/ McpControl("stop", 0)
       \/ ApiControl("stop", 0)
       \/ RcControl("stop", 0)

PauseCall ==
    /\ MoreLines
    /\ \/ McpControl("pause", 0)
       \/ ApiControl("pause", 0)
       \/ RcControl("pause", 0)

ResumeCall ==
    /\ MoreLines
    /\ \/ McpControl("resume", 0)
       \/ ApiControl("resume", 0)
       \/ RcControl("resume", 0)

RestartCall ==
    /\ MoreLines
    /\ \/ McpControl("restart", 0)
       \/ ApiControl("restart", 0)
       \/ RcControl("restart", 0)

NextStop ==
    \/ StopSpeak
    \/ StopCall
    \/ PauseCall
    \/ ResumeCall
    \/ RestartCall
    \/ ProcRead
    \/ WorkerStart
    \/ FinishTask
    \/ ProcReport

\* the processor keeps reading, working and reporting
SpecStop ==
    /\ Init
    /\ [][NextStop]_vars
    /\ WF_vars(ProcRead)
    /\ WF_vars(WorkerStart)
    /\ WF_vars(FinishTask)
    /\ WF_vars(ProcReport)

\* a stop was accepted (while processing) and no task was written after it
StopStanding ==
    \E i \in 1..Len(written) :
        /\ IsStop(written[i])
        /\ \A k \in (i + 1)..Len(written) : ~IsTask(written[k])

ResumeWritten ==
    /\ Len(written') = Len(written) + 1
    /\ IsControl(written'[Len(written')])
    /\ written'[Len(written')].command = "resume"

PublicState == getPublicState(status, current_text, default_voice, playback, jobs)

\* C14, first half: after a stop accepted while the status is processing, the
\* reported status becomes idle (unless a new task is written first), and the
\* stop leaves no current job id.
C14_StopLeadsToIdle ==
    /\ StopStanding ~> (status = "idle" \/ ~StopStanding)
    /\ [](StopStanding => playback.currentJobId = NoJob)

\* C14: after a stop accepted while the status is processing, the reported
\* status becomes idle and the current job id is cleared; a resume issued
\* after that stop and before any new task is written changes nothing in the
\* reported state.
C14_StopThenResumeChangesNothing ==
    /\ C14_StopLeadsToIdle
    /\ [][StopStanding /\ ResumeWritten => PublicState' = PublicState]_vars

RestartWritten ==
    /\ Len(written') = Len(written) + 1
    /\ IsControl(written'[Len(written')])
    /\ written'[Len(written')].command = "restart"

\* C15: after a restart accepted while a task is being processed, playing or
\* paused, through any front-end (MCP restart, REST /api/control, reverse-
\* client restart_playback), the reported playback state is not paused.
C15_RestartLeavesNotPaused ==
    [][(RestartWritten /\ status \in {"processing", "paused"})
          => ~playback'.paused]_vars

(***************************************************************************)
(* Status broadcasts: every control command from every front-end, the      *)
(* default voice, and the processor's status reports.                      *)
(***************************************************************************)
McpControlAny ==
    /\ MoreRequests
    /\ \E command \in Commands : McpControl(command, 0)

ApiControlAny ==
    /\ MoreRequests
    /\ \E command \in Commands : ApiControl(command, 0)

\* a start_at with a negative index is refused, and is no accepted request
RcControlAny ==
    \E command \in Commands, index \in {-1, 0} :
        /\ ~(command = "start_at" /\ index < 0) => MoreRequests
        /\ command # "start_at" => index = 0
        /\ RcControl(command, index)

NextControl ==
    \/ Speak
    \/ McpControlAny
    \/ ApiControlAny
    \/ RcControlAny
    \/ ApiSetVoiceCall
    \/ RcSetVoiceCall
    \/ ProcRead
    \/ WorkerStart
    \/ FinishTask
    \/ ProcReport

SpecControl ==
    /\ Init
    /\ [][NextControl]_vars
    /\ WF_vars(ProcRead)
    /\ WF_vars(WorkerStart)
    /\ WF_vars(FinishTask)
    /\ WF_vars(ProcReport)

\* the last step was a handler that accepted a control command
ControlAccepted ==
    /\ reply = "ok"
    /\ written # << >>
    /\ IsControl(written[Len(written)])

\* the last step was set_default_voice changing the default voice
VoiceChanged == reply = "voice changed"

\* the last step broadcast the full public state as it now is
Announced ==
    \E i \in 1..Len(sent) : sent[i] = [type |-> "status", data |-> PublicState]

\* C16: every accepted control command (pause, resume, stop, restart, next,
\* previous, start_at) from any front-end, and every other change of the
\* public state (status, current text, default voice, playback), is followed
\* by a status broadcast that carries the full current status and playback.
C16_ChangeIsBroadcast ==
    /\ (ControlAccepted \/ VoiceChanged) ~> Announced
    /\ [][PublicState' # PublicState => Announced']_vars

(***************************************************************************)
(* Validation of speak requests: texts that are and are not empty, voices  *)
(* that are and are not among the known ones, at every front-end.          *)
(***************************************************************************)
TextArgs == {Hello, << >>}

McpSpeakAny ==
    /\ MoreRequests
    /\ \E text \in TextArgs, voice \in VoiceArgs :
          speakToolHandler(text, voice, 0, NoVal, NoPath, NoVal)

\* a request that is refused is not an accepted request
ApiSpeakAny ==
    \E text \in TextArgs, voice \in VoiceArgs :
        /\ text # << >> => MoreRequests
        /\ ApiSpeak(text, voice, 0, NoVal, NoPath, NoVal)

RcSpeakAny ==
    \E text \in TextArgs, voice \in VoiceArgs :
        /\ text # << >> => MoreRequests
        /\ RcSpeak(text, voice, 0, NoVal, NoPath, NoVal)

NextValidate ==
    \/ McpSpeakAny
    \/ ApiSpeakAny
    \/ RcSpeakAny
    \/ ProcRead

SpecValidate == Init /\ [][NextValidate]_vars

\* C17: a speak request that names a voice outside the known voices is
\* rejected before enqueue, from every front-end: no task with such a voice is
\* written to the processor and none is added to the history.
C17_UnknownVoiceNeverWritten ==
    /\ \A i \in 1..Len(written) :
          IsTask(written[i]) => written[i].voice \in AVAILABLE_VOICES
    /\ \A i \in 1..Len(history) : history[i].voice \in AVAILABLE_VOICES

\* C18: a speak request with empty text is rejected at every front-end (MCP
\* speak, REST /api/speak, reverse-client tools): no task with empty text is
\* written to the processor and none is added to the history.
C18_EmptyTextNeverWritten ==
    /\ \A i \in 1..Len(written) : IsTask(written[i]) => written[i].text # << >>
    /\ \A i \in 1..Len(history) : history[i].text # << >>

(***************************************************************************)
(* Processor output: status messages that arrive among log lines, null     *)
(* values and objects of an unknown type.                                  *)
(***************************************************************************)
\* chunks of lines that are no message: text, null, an object of unknown type
JunkChunks ==
    {<<Line("text")>>,
     <<Line("null"), Line("blank")>>,
     <<ObjectLine([type |-> "debug"]), Line("text")>>}

\* a message behind / between lines that are no message
NoisyChunks(msg) ==
    {<<Line("text"), ObjectLine(msg)>>,
     <<Line("null"), ObjectLine(msg), Line("blank")>>,
     <<ObjectLine([type |-> "debug"]), Line("text"), ObjectLine(msg), Line("text")>>}

StatusMessage ==
    [type |-> "status",
     state |-> IF status = "initializing" THEN "ready" ELSE ProcState,
     text |-> IF ProcState = "processing" THEN written[procCur].text ELSE << >>]

\* the processor reports its state, among other output
OutStatus ==
    /\ status # ProcState
    /\ \E chunk \in NoisyChunks(StatusMessage) \cup {<<ObjectLine(StatusMessage)>>} :
          StdoutData(chunk)

\* the processor prints lines that are no message
OutLog == \E chunk \in JunkChunks : StdoutData(chunk)

NextOutput ==
    \/ Speak
    \/ ProcRead
    \/ WorkerStart
    \/ FinishTask
    \/ OutStatus
    \/ OutLog

SpecOutput == Init /\ [][NextOutput]_vars

RcCombineLost ==
    /\ MoreRequests
    /\ MoreJobs
    /\ \E a \in CombineArgs :
          RcSpeakMp3CombinedLost(a.text, NoVal, 0, a.mp3_path, a.max_chars_per_section,
                                 a.cleanup_parts)

NextFault ==
    \/ Speak
    \/ RcCombine
    \/ RcCombineNext
    \/ RcCombineLost
    \/ RcSpeakMp3CombinedNextLost
    \/ ProcRead

SpecFault == Init /\ [][NextFault]_vars

\* part k of job j was handed to the processor / was handed over in vain
PartWritten(j, k) ==
    \E i \in 1..Len(written) :
        /\ IsTask(written[i])
        /\ written[i].jobId = j
        /\ written[i].mp3_path = jobs[j].partPaths[k]

PartLost(j, k) ==
    /\ ~PartWritten(j, k)
    /\ \E i \in 1..Len(history) :
          /\ history[i].jobId = j
          /\ history[i].mp3_path = jobs[j].partPaths[k]

\* C20: a failure to deliver one item of a batch does not keep the remaining
\* items of the batch from being written to the processor: once the handler
\* of a speak_mp3_combined call has ended, every part of its job other than
\* those whose delivery failed has been written.
C20_LostItemDoesNotStopBatch ==
    \A j \in DOMAIN jobs :
        (~rc.active \/ rc.jobId # j)
            => \A k \in 1..jobs[j].totalParts : PartWritten(j, k) \/ PartLost(j, k)

(***************************************************************************)
(* The splitter: one speak_mp3_combined call, from either front-end, with  *)
(* every text of letters, full stops and newlines up to a length, and      *)
(* budgets of 2 to 4 characters.                                           *)
(***************************************************************************)
SplitTexts == UNION {[1..n -> {"a", ".", "\n"}] : n \in 0..MaxTextLen}

SplitBudgets == {2, 3, 4}

McpSplit ==
    /\ jobs = << >>
    /\ \E text \in SplitTexts, maxChars \in SplitBudgets :
          McpSpeakMp3Combined(text, NoVal, 0, NoPath, maxChars, NoVal)

RcSplit ==
    /\ jobs = << >>
    /\ \E text \in SplitTexts, maxChars \in SplitBudgets :
          /\ text # << >>
          /\ RcSpeakMp3Combined(text, NoVal, 0, NoPath, maxChars, NoVal)

NextSplit ==
    \/ McpSplit
    \/ RcSplit
    \/ RcSpeakMp3CombinedNext

SpecSplit == Init /\ [][NextSplit]_vars

\* the sections a finished handler has written for job j, in order
WrittenSections(j) ==
    [k \in 1..Len(FreshPartLines(j)) |-> FreshPartLines(j)[k].text]

HandlerDone(j) == ~(rc.active /\ rc.jobId = j)

OneSentence(s) == Len(SplitSentences(s)) = 1 /\ Len(SplitParagraphs(s)) = 1

NonSpace(s) == Len(SelectSeq(s, LAMBDA c : ~IsSpace(c)))

\* C21 as stated: no section exceeds maxChars unless it is one single sentence
\* that alone exceeds it, and a text of more than twice the budget (12,000
\* characters for 5000) therefore yields at least 3 sections.
C21_SectionsWithinBudget ==
    \A j \in DOMAIN jobs :
        HandlerDone(j) =>
            LET maxChars == jobArgs[j].max_chars_per_section
                sections == WrittenSections(j)
            IN  /\ \A k \in 1..Len(sections) :
                      Len(sections[k]) <= maxChars \/ OneSentence(sections[k])
                /\ Len(jobArgs[j].text) > 2 * maxChars => Len(sections) >= 3

\* C21 amended: a section exceeds maxChars only when it is one single sentence
\* or the text has no visible character (it is then returned whole); and when
\* every section is within the budget, a text with more than twice the budget
\* in visible characters yields at least 3 sections.
C21_SectionsWithinBudgetOrOneSentence ==
    \A j \in DOMAIN jobs :
        HandlerDone(j) =>
            LET maxChars == jobArgs[j].max_chars_per_section
                text == jobArgs[j].text
                sections == WrittenSections(j)
                within == \A k \in 1..Len(sections) : Len(sections[k]) <= maxChars
            IN  /\ \A k \in 1..Len(sections) :
                      \/ Len(sections[k]) <= maxChars
                      \/ OneSentence(sections[k])
                      \/ NonSpace(text) = 0 /\ sections = <<text>>
                /\ within /\ NonSpace(text) > 2 * maxChars => Len(sections) >= 3

C21_Witness ==
    \E j \in DOMAIN jobs :
        /\ HandlerDone(j)
        /\ NonSpace(jobArgs[j].text) > 2 * jobArgs[j].max_chars_per_section
        /\ Len(WrittenSections(j)) >= 3
        /\ \E k \in 1..Len(WrittenSections(j)) :
              Len(WrittenSections(j)[k]) = jobArgs[j].max_chars_per_section
        /\ \A k \in 1..Len(WrittenSections(j)) :
              Len(WrittenSections(j)[k]) <= jobArgs[j].max_chars_per_section

RECURSIVE Flatten(_)
Flatten(seqs) == IF seqs = << >> THEN << >> ELSE Head(seqs) \o Flatten(Tail(seqs))

\* the paragraphs of s that hold a visible character
Paragraphs(s) == SelectSeq(SplitParagraphs(s), LAMBDA p : Len(trim(p)) > 0)

\* the sentences of s in order, each without its surrounding whitespace
AllSentences(s) ==
    LET perPara == [i \in 1..Len(Paragraphs(s)) |->
                       LET ss == SplitSentences(Paragraphs(s)[i])
                       IN  SelectSeq([k \in 1..Len(ss) |-> trim(ss[k])],
                                     LAMBDA x : x # << >>)]
    IN  Flatten(perPara)

\* C22: the sections partition the input's sentences in order (every sentence
\* whole, in exactly one section), a paragraph within the budget is kept whole
\* inside one section, and a text within the budget is the single unchanged
\* section.
C22_SectionsPartitionSentences ==
    \A j \in DOMAIN jobs :
        HandlerDone(j) =>
            LET maxChars == jobArgs[j].max_chars_per_section
                text == jobArgs[j].text
                sections == WrittenSections(j)
            IN  /\ Flatten([k \in 1..Len(sections) |-> AllSentences(sections[k])])
                      = AllSentences(text)
                /\ \A i \in 1..Len(Paragraphs(text)) :
                      Len(Paragraphs(text)[i]) <= maxChars =>
                          \E k \in 1..Len(sections) :
                              \E q \in 1..Len(Paragraphs(sections[k])) :
                                  trim(Paragraphs(sections[k])[q])
                                      = trim(Paragraphs(text)[i])
                /\ Len(text) <= maxChars => sections = <<text>>

\* a paragraph over the budget is divided between sections while a paragraph
\* within the budget stays whole
C22_Witness ==
    \E j \in DOMAIN jobs :
        /\ HandlerDone(j)
        /\ Len(WrittenSections(j)) >= 2
        /\ Len(Paragraphs(jobArgs[j].text)) = 2
        /\ Len(Paragraphs(jobArgs[j].text)[1]) > jobArgs[j].max_chars_per_section
        /\ Len(SplitSentences(Paragraphs(jobArgs[j].text)[1])) >= 2
        /\ Len(Paragraphs(jobArgs[j].text)[2]) <= jobArgs[j].max_chars_per_section
        /\ Len(AllSentences(jobArgs[j].text)) >= 3

(***************************************************************************)
(* The life of a combine job when the processor completes every task it    *)
(* reads: each part task ends in mp3_complete and each combine_mp3 command *)
(* in a progress event with phase done and percent 100.  The handlers and  *)
(* the processor's steps are fair; requests are not.                       *)
(***************************************************************************)
PartDone == WorkerFinishTask(TRUE)

CombineDone == WorkerFinishCombine(TRUE)

NextJobs ==
    \/ Speak
    \/ Replay
    \/ McpCombine
    \/ RcCombine
    \/ RcCombineNext
    \/ RcCombineLost
    \/ RcSpeakMp3CombinedNextLost
    \/ ProcRead
    \/ WorkerStart
    \/ PartDone
    \/ CombineDone

SpecJobs ==
    /\ Init
    /\ [][NextJobs]_vars
    /\ WF_vars(RcCombineNext \/ RcSpeakMp3CombinedNextLost)
    /\ WF_vars(ProcRead)
    /\ WF_vars(WorkerStart)
    /\ WF_vars(PartDone)
    /\ WF_vars(CombineDone)

Finished(j) == j \in DOMAIN jobs /\ jobs[j].phase \in {"done", "error"}

\* C23: a job that has reached phase done or error eventually leaves the job
\* map, so that get_job_status, get_notifications and the status broadcast stop
\* listing it.
C23_FinishedJobLeavesMap ==
    \A j \in 1..MaxJobs : Finished(j) ~> (j \notin DOMAIN jobs)

\* C27: when the processor completes every part task and every combine_mp3
\* command it reads, every registered combine job eventually is in phase done
\* with percent 100.
C27_RegisteredJobGetsDone ==
    \A j \in 1..MaxJobs :
        (j \in DOMAIN jobs)
            ~> (j \in DOMAIN jobs /\ jobs[j].phase = "done" /\ jobs[j].percent = 100)

\* C24: no step lowers a job's completedParts, whatever the order of
\* completions, progress events, errors, replays and control commands.
C24_CompletedPartsNeverDecreases ==
    [][\A j \in DOMAIN jobs :
          /\ j \in DOMAIN jobs'
          /\ jobs'[j].completedParts >= jobs[j].completedParts]_vars

\* a job whose completions were counted up to the concatenation, with a
\* control command written to the processor
C24_Witness ==
    \E j \in DOMAIN jobs :
        /\ jobs[j].completedParts >= 1
        /\ jobs[j].phase = "combining"
        /\ \E i \in 1..Len(written) : IsControl(written[i])

(***************************************************************************)
(* Status messages: the processor reports any of its states at any time,   *)
(* alone in a data event or among lines that are no message.               *)
(***************************************************************************)
ProcStates == {"ready", "initializing", "idle", "processing", "error"}

OutStatusOf(state, text) ==
    LET msg == [type |-> "status", state |-> state, text |-> text]
    IN  \E chunk \in NoisyChunks(msg) \cup {<<ObjectLine(msg)>>} : StdoutData(chunk)

OutAnyStatus == \E state \in ProcStates, text \in {Hello, << >>} : OutStatusOf(state, text)

NextStatus ==
    \/ Speak
    \/ ProcRead
    \/ WorkerStart
    \/ FinishTask
    \/ OutAnyStatus
    \/ OutLog

SpecStatus == Init /\ [][NextStatus]_vars

\* C25: the status is initializing at startup and changes only when a status
\* message is handled; it then is the state of that message, with ready stored
\* as idle, and it is always one of initializing, idle, processing, error.
C25_StatusFollowsLastMessage ==
    /\ status = "initializing"
    /\ [][/\ \A state \in ProcStates, text \in {Hello, << >>} :
                OutStatusOf(state, text)
                    => status' = (IF state = "ready" THEN "idle" ELSE state)
          /\ (~\E st \in ProcStates, tx \in {Hello, << >>} : OutStatusOf(st, tx))
                => status' = status
          /\ status' \in {"initializing", "idle", "processing", "error"}]_vars

\* the status after a first message (ready) and a later one (error) that came
\* in a data event together with a logged line
C25_Witness ==
    /\ status = "error"
    /\ reply = "logged"
    /\ Announced
    /\ written # << >>

(***************************************************************************)
(* The stdout stream cut into data events.  The handler splits each data   *)
(* event on newlines by itself and keeps nothing between events, so a line *)
(* that a boundary cuts in two arrives as two pieces, neither of them valid *)
(* JSON (the first lacks the closing brace, the second the opening one).   *)
(***************************************************************************)
CutLine == <<Line("text")>>

\* a part task ends and the mp3_complete line is cut by a data-event boundary:
\* the data event that ends with its first piece (the event that starts with
\* the second piece is one of OutLog)
WorkerFinishTaskCut ==
    /\ procCur # 0
    /\ written[procCur].type = "speak"
    /\ written[procCur].mp3
    /\ written[procCur].jobId # NoJob
    /\ partsDone' = partsDone \cup {<<written[procCur].jobId, written[procCur].mp3_path>>}
    /\ procCur' = 0
    /\ IF HandledMessages(CutLine) = << >>
       THEN /\ sent' = << >>
            /\ UNCHANGED <<status, current_text, jobs, written>>
       ELSE handlePythonMessage(Head(HandledMessages(CutLine)))
    /\ writtenReq' = IF written' # written THEN Append(writtenReq, 0) ELSE writtenReq
    /\ reply' = "logged"
    /\ UNCHANGED <<default_voice, history, playback, reqVars, readPos, workQ, partsFailed>>

NextStream ==
    \/ McpCombine
    \/ RcCombine
    \/ RcCombineNext
    \/ ProcRead
    \/ WorkerStart
    \/ PartDone
    \/ WorkerFinishTaskCut
    \/ OutLog
    \/ CombineDone

SpecStream == Init /\ [][NextStream]_vars

\* C26: however the stream is cut into data events, each mp3_complete line the
\* processor emits is handled exactly once: a job has counted as many
\* completions as the processor has reported parts of it.
C26_EveryCompletionHandledOnce ==
    \A j \in DOMAIN jobs :
        jobs[j].completedParts = Cardinality({p \in partsDone : p[1] = j})

\* C28: every job has at least one part and has counted between 0 and
\* totalParts completions.
C28_CompletedPartsWithinTotal ==
    \A j \in DOMAIN jobs :
        /\ jobs[j].totalParts >= 1
        /\ 0 <= jobs[j].completedParts
        /\ jobs[j].completedParts <= jobs[j].totalParts

\* C29: the status field of every job equals its phase field, one of
\* generating, combining, done, error.
C29_StatusEqualsPhase ==
    \A j \in DOMAIN jobs :
        /\ jobs[j].status = jobs[j].phase
        /\ jobs[j].phase \in {"generating", "combining", "done", "error"}

\* C30: right after a step that broadcast progress events, the last one for a
\* job carries the percent and the phase that the job record holds.
C30_BroadcastMatchesJob ==
    \A i \in 1..Len(sent) :
        /\ sent[i].type = "progress"
        /\ sent[i].jobId \in DOMAIN jobs
        /\ \A k \in (i + 1)..Len(sent) :
              ~(sent[k].type = "progress" /\ sent[k].jobId = sent[i].jobId)
        => /\ sent[i].percent = jobs[sent[i].jobId].percent
           /\ sent[i].phase = jobs[sent[i].jobId].phase

\* line i is a part task that the handler of job j wrote (not a replayed copy)
IsFreshPart(i, j) ==
    /\ written[i].type = "speak"
    /\ written[i].jobId = j
    /\ written[i].timestamp = NoStamp

\* C31: the part tasks of one combine job are contiguous on the processor's
\* stdin: between two parts of a job there is no task of another request and
\* no control command, whichever front-end started the job.
C31_PartsWrittenContiguously ==
    \A j \in DOMAIN jobs :
        \A i, k \in 1..Len(written) :
            IsFreshPart(i, j) /\ IsFreshPart(k, j)
                => \A m \in i..k : IsFreshPart(m, j)

(***************************************************************************)
(* Several combine jobs at once (the first of two parts, the others of     *)
(* one), a standalone MP3 task beside them, and events that carry no job   *)
(* id or the id of no job.                                                 *)
(***************************************************************************)
PairCombine ==
    /\ Cardinality(DOMAIN jobs) < MaxPairJobs
    /\ McpSpeakMp3Combined(IF DOMAIN jobs = {} THEN TwoParagraphs ELSE Hello,
                           NoVal, 0, HostOut, 4, NoVal)

\* speak with mp3 = true: an MP3 task that belongs to no job
Mp3Speak ==
    /\ \A i \in 1..Len(written) : written[i].jobId # NoJob
    /\ speakToolHandler(Hello, NoVal, 0, "true", NoPath, NoVal)

\* events with no job id or with an id that no job has (one not yet issued)
StrayEvents ==
    {[type |-> t, jobId |-> j, percent |-> 50, phase |-> "generating", detail |-> ""] :
        t \in {"progress", "mp3_complete"}, j \in {NoJob, nextId}}

StrayEvent == \E msg \in StrayEvents : StdoutData(<<ObjectLine(msg)>>)

NextPair ==
    \/ PairCombine
    \/ Mp3Speak
    \/ ProcRead
    \/ WorkerStart
    \/ Progress
    \/ PartDone
    \/ CombineDone
    \/ StrayEvent

SpecPair == Init /\ [][NextPair]_vars

\* C32: a step changes a job only when it handles an event of the task the
\* worker is on and that task carries the job's id; an event with no job id or
\* an unknown one (the completion of a standalone MP3 task among them) changes
\* no job and writes no combine_mp3 command.
C32_EventChangesOnlyItsJob ==
    [][/\ \A j \in DOMAIN jobs :
             jobs'[j] # jobs[j] => procCur # 0 /\ written[procCur].jobId = j
       /\ \A msg \in StrayEvents :
             StdoutData(<<ObjectLine(msg)>>) => UNCHANGED <<jobs, written>>
       /\ (procCur # 0 /\ procCur' = 0 /\ written[procCur].jobId = NoJob)
             => UNCHANGED <<jobs, written>>]_vars

\* two jobs in progress, one of them with a completion counted and the other
\* untouched, after the standalone MP3 task was completed
C32_Witness ==
    /\ Cardinality(DOMAIN jobs) = 2
    /\ \E j, k \in DOMAIN jobs :
          /\ jobs[j].completedParts = 1
          /\ jobs[j].totalParts = 2
          /\ jobs[k].completedParts = 0
    /\ \E i \in 1..Len(written) :
          /\ written[i].jobId = NoJob
          /\ written[i].mp3
          /\ i < readPos
          /\ \A q \in 1..Len(workQ) : workQ[q] # i
          /\ procCur # i

JobLines(j) == {i \in 1..Len(written) : written[i].type = "speak" /\ written[i].jobId = j}

\* C33: a job enters the job map with completedParts 0 and phase generating in
\* a step before which none of its part tasks was written, and every part task
\* on the processor's stdin belongs to a job of the map, so that a completion
\* event for a part finds the job.
C33_JobRegisteredBeforeParts ==
    /\ [](\A i \in 1..Len(written) :
             (written[i].type = "speak" /\ written[i].jobId # NoJob)
                 => written[i].jobId \in DOMAIN jobs)
    /\ [][\A j \in DOMAIN jobs' :
             j \notin DOMAIN jobs
                 => /\ JobLines(j) = {}
                    /\ jobs'[j].completedParts = 0
                    /\ jobs'[j].phase = "generating"]_vars

\* a completion event for a part has found its job: one of two parts counted
C33_Witness ==
    \E j \in DOMAIN jobs :
        /\ jobs[j].totalParts = 2
        /\ jobs[j].completedParts = 1
        /\ jobs[j].phase = "generating"
        /\ Cardinality(JobLines(j)) = 2

\* the step wrote a task as the last line of the stream
TaskWritten ==
    /\ Len(written') > Len(written)
    /\ IsTask(written'[Len(written')])

\* C34: a step that writes a task leaves that task's id in the history entry
\* at index 0, and of two tasks that are in the history the one written later
\* stands earlier in it.
C34_HistoryBeforeWrite ==
    /\ [][TaskWritten
            => /\ history' # << >>
               /\ history'[1].id = written'[Len(written')].id]_vars
    /\ [](\A i, k \in 1..Len(written), a, b \in 1..Len(history) :
             (/\ i < k
              /\ IsTask(written[i])
              /\ IsTask(written[k])
              /\ history[a].id = written[i].id
              /\ history[b].id = written[k].id) => b < a)

\* the last three tasks on the stream are the first three entries of the
\* history in reverse, the last one a part of a job written behind a task of
\* another request
C34_Witness ==
    /\ Len(history) >= 3
    /\ Len(written) >= 3
    /\ \A i \in 1..3 : IsTask(written[Len(written) + 1 - i])
    /\ \A i \in 1..3 : history[i].id = written[Len(written) + 1 - i].id
    /\ written[Len(written)].jobId # NoJob
    /\ written[Len(written) - 1].jobId = NoJob

\* C35: the playback state is reported as paused only while a task is being
\* processed: no reachable state has the status idle or initializing together
\* with paused = true.
C35_PausedOnlyWhileProcessing ==
    status \in {"idle", "initializing"} => ~playback.paused

\* C36: the default voice is one of the known voice ids in every reachable
\* state, and so is the voice of every task that was built with the default.
C36_DefaultVoiceKnown ==
    /\ default_voice \in AVAILABLE_VOICES
    /\ \A i \in 1..Len(written) :
          IsTask(written[i]) => written[i].voice \in AVAILABLE_VOICES

\* C37: the current text is non-empty only while the status is processing; a
\* status message whose state is not processing clears it, a processing
\* message with a text sets it, and a processing message without text keeps
\* the previous one.
C37_CurrentTextOnlyWhileProcessing ==
    /\ [](current_text # << >> => status = "processing")
    /\ [][\A state \in ProcStates, text \in {Hello, << >>} :
             OutStatusOf(state, text)
                 => current_text' = (IF state # "processing" THEN << >>
                                     ELSE IF text # << >> THEN text
                                     ELSE current_text)]_vars

\* the processor is on a task that was written and the server shows its text
C37_Witness ==
    /\ status = "processing"
    /\ current_text = Hello
    /\ reply = NoVal
    /\ Announced
    /\ procCur # 0

(***************************************************************************)
(* Path translation: speak_mp3_combined with output paths put together     *)
(* from the two prefixes and a plain segment, through both front-ends.     *)
(***************************************************************************)
PathPieces == {CONTAINER_DATA_PREFIX, MP3_HOST_PREFIX, <<"/", "x">>}

RECURSIVE PathsOf(_)
PathsOf(n) ==
    IF n = 0 THEN {<< >>}
    ELSE PathsOf(n - 1) \cup {p \o q : p \in PathsOf(n - 1), q \in PathPieces}

PathArgs == PathsOf(MaxPathParts)

McpPath ==
    /\ jobs = << >>
    /\ \E path \in PathArgs : McpSpeakMp3Combined(Hello, NoVal, 0, path, 0, NoVal)

RcPath ==
    /\ jobs = << >>
    /\ \E path \in PathArgs : RcSpeakMp3Combined(TwoParagraphs, NoVal, 0, path, 4, NoVal)

NextPath ==
    \/ McpPath
    \/ RcPath
    \/ RcSpeakMp3CombinedNext

SpecPath == Init /\ [][NextPath]_vars

\* the host path a job was asked for (none: the path is generated) and the
\* container path the job holds
AskedPath(j) == jobArgs[j].mp3_path

\* C38 as stated: translating a job's container path to the host and back
\* gives the same path, translating the host path that was asked for to the
\* container and back gives the same path, and a path that carries neither
\* prefix is returned unchanged by both functions.
C38_PathTranslationRoundTrips ==
    \A j \in DOMAIN jobs :
        LET p == jobs[j].outputPath
            h == AskedPath(j)
        IN  /\ hostToContainerPath(containerToHostPath(p)) = p
            /\ containerToHostPath(hostToContainerPath(h)) = h
            /\ (~startsWith(h, CONTAINER_DATA_PREFIX) /\ ~startsWith(h, MP3_HOST_PREFIX))
                  => hostToContainerPath(h) = h /\ containerToHostPath(h) = h

RoundTrips(x) ==
    /\ startsWith(x, CONTAINER_DATA_PREFIX)
          => hostToContainerPath(containerToHostPath(x)) = x
    /\ startsWith(x, MP3_HOST_PREFIX)
          => containerToHostPath(hostToContainerPath(x)) = x
    /\ (~startsWith(x, CONTAINER_DATA_PREFIX) /\ ~startsWith(x, MP3_HOST_PREFIX))
          => hostToContainerPath(x) = x /\ containerToHostPath(x) = x

\* C38 amended: a path that carries the container prefix survives the way to
\* the host and back, a path that carries the host prefix the way to the
\* container and back, and a path that carries neither is returned unchanged
\* by both functions; the container path a job holds always survives, and the
\* host path that was asked for survives unless it begins with the container
\* prefix.
C38_PrefixedPathsRoundTrip ==
    \A j \in DOMAIN jobs :
        LET p == jobs[j].outputPath
            h == AskedPath(j)
        IN  /\ RoundTrips(p)
            /\ RoundTrips(h)
            /\ hostToContainerPath(containerToHostPath(p)) = p
            /\ ~startsWith(h, CONTAINER_DATA_PREFIX)
                  => containerToHostPath(hostToContainerPath(h)) = h

\* a job asked for ~/.tts/x holds /app/data/x
C38_Witness ==
    \E j \in DOMAIN jobs :
        /\ AskedPath(j) = MP3_HOST_PREFIX \o <<"/", "x">>
        /\ jobs[j].outputPath = CONTAINER_DATA_PREFIX \o <<"/", "x">>
        /\ containerToHostPath(jobs[j].outputPath) = AskedPath(j)

=============================================================================
